---- MODULE Spec2Model ----
(***************************************************************************)
(* Signaling server of the Telegram mini-app voice chat (src/main.py).     *)
(*                                                                         *)
(* The state is the two module-level registries `rooms` and `users`, and   *)
(* one coroutine `websocket_endpoint` per connection.  A coroutine runs    *)
(* without interruption between two `await`s, so an action of the model is *)
(* the code one coroutine executes from the completion of one await up to  *)
(* the next await it reaches.  The awaits are receive_json (lines 270 and  *)
(* 310) and send_json (lines 286, 79 and 91).                              *)
(*                                                                         *)
(* rooms[r] is a Python dict.  It is modelled as CPython lays it out: the  *)
(* entries in insertion order, a deleted entry leaving a hole, so that     *)
(* iterating rooms[r].items() across an await (line 74) behaves as the     *)
(* interpreter's dict iterator does when the dict is changed meanwhile.    *)
(***************************************************************************)
EXTENDS Integers, Sequences, FiniteSets, TLC

\* Connections (websockets), room ids and user ids of the URL path.
Conns == {1, 2, 3}
RoomIds == {"r1", "r2"}
UserIds == {"A", "B", "C"}

\* Python's None, also the value of a missing field read with dict.get.
None == "None"

\* Signaling messages (after the first message) read over all connections.
MaxMsgs == 1

VARIABLES
    rooms,   \* main.py:26  {room_id: {user_id: websocket}}
    users,   \* main.py:29  {user_id: {**user_info, room_id}}
    path,    \* per connection: <<room_id, user_id>> of /ws/{room_id}/{user_id}
    pc,      \* per connection: where its websocket_endpoint coroutine is suspended
    chan,    \* per connection: state of the client's side of the websocket
    frame,   \* per connection: the send it is suspended in, with the locals of the call
    user_info, \* per connection: the local user_info (main.py:265), None until a join
    wire,    \* the message the last step delivered: to, by, msg; NoWire if none
    got,     \* the signaling message the last step read: by, msg; NoGot if none
    nmsg     \* signaling messages read so far

vars == <<rooms, users, path, pc, chan, frame, user_info, wire, got, nmsg>>

RoomOf(c) == path[c][1]
UserOf(c) == path[c][2]

\* user_info the client of connection c puts in its join message: a
\* different bag for every connection, so that an overwrite is visible.
InfoOf(c) == <<"i1", "i2", "i3", "i4">>[c]

----------------------------------------------------------------------------
(* Python dict: entries in insertion order, holes where a key was deleted. *)

\* The key slot of a deleted entry: no user id and not None.
Deleted == "<deleted>"
Hole == [k |-> Deleted, ws |-> 0]

\* F applied to the value of v: v is computed once, as a local variable is.
With(v, F(_)) == CHOOSE y \in {F(x) : x \in {v}} : TRUE

Remove(f, x) == [y \in DOMAIN f \ {x} |-> f[y]]
Put(f, x, v) == [y \in DOMAIN f \cup {x} |-> IF y = x THEN v ELSE f[y]]

dict_used(d) == Cardinality({i \in 1..Len(d) : d[i].k # Deleted})
dict_has(d, u) == \E i \in 1..Len(d) : d[i].k = u
dict_get(d, u) == d[CHOOSE i \in 1..Len(d) : d[i].k = u].ws
dict_set(d, u, w) ==
    IF dict_has(d, u)
    THEN [i \in 1..Len(d) |-> IF d[i].k = u THEN [k |-> u, ws |-> w] ELSE d[i]]
    ELSE Append(d, [k |-> u, ws |-> w])
dict_del(d, u) == [i \in 1..Len(d) |-> IF d[i].k = u THEN Hole ELSE d[i]]
dict_keys(d) ==
    LET live == SelectSeq(d, LAMBDA e : e.k # Deleted)
    IN  [i \in 1..Len(live) |-> live[i].k]

\* `used` keys of the room's dict as a set; empty for an absent room.
Bound(rs, r) == IF r \in DOMAIN rs THEN {rs[r][i].k : i \in 1..Len(rs[r])} \ {Deleted} ELSE {}

----------------------------------------------------------------------------
(* Messages on the wire.                                                   *)

Msg(t, uid, data, plist) == [type |-> t, uid |-> uid, data |-> data, plist |-> plist]
NoMsg == Msg("none", None, None, <<>>)

RelayTypes == {"offer", "answer", "ice_candidate"}

\* First messages: a join, or a message of another type.
InitMsgs == {"join", "other"}

\* Later messages: [type, target_user_id, payload]; a missing field is None.
InMsgs ==
    [type : RelayTypes, target : UserIds, payload : {"X"}]
    \cup [type : {"offer"}, target : {None}, payload : {"X"}]
    \cup [type : {"offer"}, target : UserIds, payload : {None}]
    \cup [type : {"speaking"}, target : {None}, payload : {"True", None}]
    \cup [type : {"other"}, target : {None}, payload : {None}]

RoomMsgs == [type : {"speaking"}, target : {None}, payload : {"True"}]

----------------------------------------------------------------------------
(* ConnectionManager and the registries.                                   *)

\* The join with line 279 replaced by rooms[room_id] = {user_id: websocket}:
\* an addition that overwrites the room's map.
add_user_overwriting(st, r, u, w, info) ==
    [st EXCEPT !.rooms = Put(st.rooms, r, dict_set(<<>>, u, w)),
               !.users = Put(st.users, u, [info |-> info, room_id |-> r])]

\* main.py:276-283
add_user(st, r, u, w, info) ==
    LET d == IF r \in DOMAIN st.rooms THEN st.rooms[r] ELSE <<>>
    IN  [st EXCEPT !.rooms = Put(st.rooms, r, dict_set(d, u, w)),
                   !.users = Put(st.users, u, [info |-> info, room_id |-> r])]

\* disconnect without lines 61-62: the emptied room stays in rooms.
disconnect_keeps_room(st, r, u) ==
    LET rs1 == IF r \in DOMAIN st.rooms /\ dict_has(st.rooms[r], u)
               THEN [st.rooms EXCEPT ![r] = dict_del(st.rooms[r], u)]
               ELSE st.rooms
        us1 == IF u \in DOMAIN st.users THEN Remove(st.users, u) ELSE st.users
    IN  [st EXCEPT !.rooms = rs1, !.users = us1]

\* main.py:56-65
disconnect(st, r, u) ==
    LET rs1 == IF r \in DOMAIN st.rooms /\ dict_has(st.rooms[r], u)
               THEN LET d == dict_del(st.rooms[r], u)
                    IN  IF dict_used(d) = 0
                        THEN Remove(st.rooms, r)
                        ELSE [st.rooms EXCEPT ![r] = d]
               ELSE st.rooms
        us1 == IF u \in DOMAIN st.users THEN Remove(st.users, u) ELSE st.users
    IN  [st EXCEPT !.rooms = rs1, !.users = us1]

\* main.py:95-108
get_room_participants(rs, us, r) ==
    IF r \notin DOMAIN rs THEN <<>>
    ELSE LET ks == SelectSeq(dict_keys(rs[r]), LAMBDA u : u \in DOMAIN us)
         IN  [i \in 1..Len(ks) |->
                [user_id |-> ks[i], info |-> us[ks[i]].info, room_id |-> us[ks[i]].room_id]]

----------------------------------------------------------------------------
(* broadcast_to_room: the loop over rooms[room_id].items() keeps a dict    *)
(* iterator alive across every await of send_json.                         *)

NoFrame ==
    [kind |-> "none", ret |-> "none", to |-> 0, key |-> None, msg |-> NoMsg,
     excl |-> None, pos |-> 0, len |-> 0, used |-> 0, stale |-> FALSE,
     failed |-> <<>>, sent |-> <<>>]

\* One next() of the iterator `it` over the dict whose entries are now d
\* (CPython: the size check comes first, then the scan over the entries).
dictiter_next(d, it) ==
    LET out(t, p, l, k, w) == [tag |-> t, pos |-> p, len |-> l, key |-> k, ws |-> w]
        rest == {i \in (it.pos + 1)..Len(d) : d[i].k # Deleted}
    IN  IF dict_used(d) # it.used THEN out("raise", it.pos, it.len, None, 0)
        ELSE IF rest = {} THEN out("stop", it.pos, it.len, None, 0)
        ELSE IF it.len = 0 THEN out("raise", it.pos, it.len, None, 0)
        ELSE LET i == CHOOSE i \in rest : \A j \in rest : i <= j
             IN  out("yield", i, it.len - 1, d[i].k, d[i].ws)

\* main.py:74-76  the next item whose key is not exclude_user
RECURSIVE bcast_iter(_, _, _)
bcast_iter(d, it, excl) ==
    With(dictiter_next(d, it), LAMBDA n :
         IF n.tag = "yield" /\ n.key = excl
         THEN bcast_iter(d, [it EXCEPT !.pos = n.pos, !.len = n.len], excl)
         ELSE n)

\* broadcast_to_room without lines 84-85: failed recipients stay registered.
bcast_cleanup_skipped(st, r, failed) == st

\* main.py:84-85
RECURSIVE bcast_cleanup(_, _, _)
bcast_cleanup(st, r, failed) ==
    IF failed = <<>> THEN st
    ELSE bcast_cleanup(disconnect(st, r, Head(failed)), r, Tail(failed))

\* main.py:74-85  from one next() of the iterator up to the next send_json,
\* the return of the call, or the RuntimeError of the iterator.
bcast_continue(st, r, f) ==
    LET d == IF f.stale \/ r \notin DOMAIN st.rooms THEN <<>> ELSE st.rooms[r]
    IN  With(bcast_iter(d, f, f.excl), LAMBDA n :
          CASE n.tag = "yield" ->
                 [tag |-> "await", st |-> st,
                  frame |-> [f EXCEPT !.pos = n.pos, !.len = n.len, !.key = n.key, !.to = n.ws]]
            [] n.tag = "stop" ->
                 [tag |-> "return", st |-> bcast_cleanup(st, r, f.failed), frame |-> NoFrame]
            [] n.tag = "raise" ->
                 [tag |-> "raise", st |-> st, frame |-> NoFrame])

\* main.py:67-85
broadcast_to_room(st, r, msg, excl, ret) ==
    LET f0 == [NoFrame EXCEPT !.kind = "bcast", !.ret = ret, !.msg = msg, !.excl = excl]
    IN  IF r \notin DOMAIN st.rooms
        THEN [tag |-> "return", st |-> st, frame |-> NoFrame]
        ELSE bcast_continue(st, r, [f0 EXCEPT !.used = dict_used(st.rooms[r]),
                                              !.len = dict_used(st.rooms[r])])

\* send_to_user that sends to the first participant of the room, whoever the
\* target is.
send_to_user_first(st, r, u, msg) ==
    IF r \in DOMAIN st.rooms /\ dict_has(st.rooms[r], u)
    THEN [tag |-> "await", st |-> st,
          frame |-> [NoFrame EXCEPT !.kind = "unicast", !.key = u, !.msg = msg,
                        !.to = dict_get(st.rooms[r], dict_keys(st.rooms[r])[1])]]
    ELSE [tag |-> "return", st |-> st, frame |-> NoFrame]

\* send_to_user that looks the target up in every room, not only in room_id.
send_to_user_any_room(st, r, u, msg) ==
    IF \E q \in DOMAIN st.rooms : dict_has(st.rooms[q], u)
    THEN LET q == CHOOSE q \in DOMAIN st.rooms : dict_has(st.rooms[q], u)
         IN  [tag |-> "await", st |-> st,
              frame |-> [NoFrame EXCEPT !.kind = "unicast", !.key = u, !.msg = msg,
                                        !.to = dict_get(st.rooms[q], u)]]
    ELSE [tag |-> "return", st |-> st, frame |-> NoFrame]

\* main.py:87-93  up to the await of send_json
send_to_user(st, r, u, msg) ==
    IF r \in DOMAIN st.rooms /\ dict_has(st.rooms[r], u)
    THEN [tag |-> "await", st |-> st,
          frame |-> [NoFrame EXCEPT !.kind = "unicast", !.key = u, !.msg = msg,
                                    !.to = dict_get(st.rooms[r], u)]]
    ELSE [tag |-> "return", st |-> st, frame |-> NoFrame]

----------------------------------------------------------------------------
(* websocket_endpoint, one coroutine per connection.                       *)
(* pc: "init_recv" awaiting the first message (line 270), "recv" awaiting  *)
(* a message in the loop (line 310), "send" awaiting a send_json, "done"   *)
(* returned, "failed" ended by an exception raised in the finally block.   *)
(* st is the part of the state the coroutine of c reads and writes: the    *)
(* registries and its local user_info.                                     *)

Res(st, p, f) == [st |-> st, pc |-> p, frame |-> f]

\* main.py:352-360 continued after the broadcast of user_left
after_final(out) ==
    With(out, LAMBDA o :
      CASE o.tag = "await" -> Res(o.st, "send", o.frame)
        [] o.tag = "return" -> Res(o.st, "done", NoFrame)
        [] o.tag = "raise" -> Res(o.st, "failed", NoFrame))

\* The finally block without lines 356-360: no user_left is broadcast.
endpoint_finally_silent(st, c) ==
    Res(disconnect(st, RoomOf(c), UserOf(c)), "done", NoFrame)

\* main.py:348-360  except ...: / finally:
endpoint_finally(st, c) ==
    With(disconnect(st, RoomOf(c), UserOf(c)), LAMBDA st1 :
      after_final(broadcast_to_room(st1, RoomOf(c), Msg("user_left", UserOf(c), None, <<>>),
                                    None, "final")))

\* main.py:292-310 and 342-346: after a broadcast in the try block the loop
\* awaits the next message; the iterator's RuntimeError goes to the except clause.
after_bcast(out, c) ==
    With(out, LAMBDA o :
      CASE o.tag = "await" -> Res(o.st, "send", o.frame)
        [] o.tag = "return" -> Res(o.st, "recv", NoFrame)
        [] o.tag = "raise" -> endpoint_finally(o.st, c))

\* main.py:272-289  the first message
endpoint_init(st, c, t) ==
    IF t = "join"
    THEN LET st1 == [add_user(st, RoomOf(c), UserOf(c), c, InfoOf(c))
                        EXCEPT !.user_info = InfoOf(c)]
         IN  Res(st1, "send",
                 [NoFrame EXCEPT !.kind = "room_state", !.to = c, !.key = UserOf(c),
                     !.msg = Msg("room_state", None, None,
                                 get_room_participants(st1.rooms, st1.users, RoomOf(c)))])
    ELSE Res(st, "recv", NoFrame)

\* main.py:292-296
endpoint_joined(st, c) ==
    after_bcast(broadcast_to_room(st, RoomOf(c),
                                  Msg("user_joined", UserOf(c), st.user_info, <<>>),
                                  UserOf(c), "join"), c)

\* The loop going on to its next receive_json without awaiting the send that
\* send_to_user started.
after_unicast_detached(out) ==
    With(out, LAMBDA o : Res(o.st, "recv", o.frame))

\* main.py:316, 325, 334: after send_to_user the loop awaits the next message
after_unicast(out) ==
    With(out, LAMBDA o :
      IF o.tag = "await" THEN Res(o.st, "send", o.frame) ELSE Res(o.st, "recv", NoFrame))

\* main.py:311-346
endpoint_dispatch(st, c, m) ==
    IF m.type = "offer"
    THEN after_unicast(send_to_user(st, RoomOf(c), m.target,
                                    Msg("offer", UserOf(c), m.payload, <<>>)))
    ELSE IF m.type = "answer"
    THEN after_unicast(send_to_user(st, RoomOf(c), m.target,
                                    Msg("answer", UserOf(c), m.payload, <<>>)))
    ELSE IF m.type = "ice_candidate"
    THEN after_unicast(send_to_user(st, RoomOf(c), m.target,
                                    Msg("ice_candidate", UserOf(c), m.payload, <<>>)))
    ELSE IF m.type = "speaking"
    THEN after_bcast(broadcast_to_room(st, RoomOf(c),
                        Msg("speaking", UserOf(c),
                            IF m.payload = None THEN "False" ELSE m.payload, <<>>),
                        UserOf(c), "speaking"), c)
    ELSE Res(st, "recv", NoFrame)

\* The coroutine of c resumed when its send_json ended, ok or with an exception.
endpoint_sent(st, c, f, ok) ==
    CASE f.kind = "room_state" ->
           IF ok THEN endpoint_joined(st, c) ELSE endpoint_finally(st, c)
      [] f.kind = "unicast" ->
           Res(IF ok THEN st ELSE disconnect(st, RoomOf(c), f.key), "recv", NoFrame)
      [] f.kind = "bcast" ->
           LET f1 == IF ok THEN [f EXCEPT !.sent = Append(@, f.key)]
                           ELSE [f EXCEPT !.failed = Append(@, f.key)]
               o == bcast_continue(st, RoomOf(c), f1)
           IN  IF f.ret = "final" THEN after_final(o) ELSE after_bcast(o, c)

----------------------------------------------------------------------------
(* Actions.                                                                *)

St(c) == [rooms |-> rooms, users |-> users, user_info |-> user_info[c]]

\* A dict that was deleted from rooms is empty: an iterator still held on it
\* sees its size changed, also when the room is created anew later.
Invalidate(fr, rs) ==
    [x \in Conns |-> IF fr[x].kind = "bcast" /\ RoomOf(x) \notin DOMAIN rs
                     THEN [fr[x] EXCEPT !.stale = TRUE] ELSE fr[x]]

\* The state after the coroutine of c ran up to its next await; when the
\* endpoint ends, the server closes the websocket.
Apply(c, result) ==
    \E res \in {result} :
    /\ rooms' = res.st.rooms
    /\ users' = res.st.users
    /\ user_info' = [user_info EXCEPT ![c] = res.st.user_info]
    /\ pc' = [pc EXCEPT ![c] = res.pc]
    /\ frame' = Invalidate([frame EXCEPT ![c] = res.frame], res.st.rooms)
    /\ chan' = IF res.pc \in {"done", "failed"} THEN [chan EXCEPT ![c] = "closed"] ELSE chan
    /\ UNCHANGED path

NoWire == [to |-> 0, by |-> 0, msg |-> NoMsg, failed |-> <<>>]
NoGot == [by |-> 0, msg |-> [type |-> "none", target |-> None, payload |-> None]]

\* The URL paths of the three connections.  Connections, rooms and users
\* can be renamed into each other, so one assignment stands for each way
\* the paths can coincide.  SharedPaths: connections that reuse a user id
\* or sit in different rooms (all equal; two equal and the third with
\* another user, another room, or both; all different over two rooms).
\* RoomPaths: three different users in one room.
SharedPaths ==
    { <<<<"r1", "A">>, <<"r1", "A">>, <<"r1", "A">>>>,
      <<<<"r1", "A">>, <<"r1", "A">>, <<"r1", "B">>>>,
      <<<<"r1", "A">>, <<"r1", "A">>, <<"r2", "A">>>>,
      <<<<"r1", "A">>, <<"r1", "A">>, <<"r2", "B">>>>,
      <<<<"r1", "A">>, <<"r1", "B">>, <<"r2", "A">>>>,
      <<<<"r1", "A">>, <<"r1", "B">>, <<"r2", "C">>>> }

RoomPaths ==
    { <<<<"r1", "A">>, <<"r1", "B">>, <<"r1", "C">>>> }

\* The state after the server has started: empty registries (main.py:26, 29),
\* every connection accepted and awaiting its first message (main.py:269-270).
Start ==
    /\ rooms = <<>>
    /\ users = <<>>
    /\ pc = [c \in Conns |-> "init_recv"]
    /\ chan = [c \in Conns |-> "open"]
    /\ frame = [c \in Conns |-> NoFrame]
    /\ user_info = [c \in Conns |-> None]
    /\ wire = NoWire
    /\ got = NoGot
    /\ nmsg = 0

Init == path \in SharedPaths /\ Start

InitRoom == path \in RoomPaths /\ Start

\* main.py:270  the first message arrives
RecvInit(c, t) ==
    /\ pc[c] = "init_recv" /\ chan[c] = "open"
    /\ Apply(c, endpoint_init(St(c), c, t))
    /\ wire' = NoWire /\ got' = NoGot
    /\ UNCHANGED nmsg

\* main.py:310  a later message arrives
Recv(c, m) ==
    /\ pc[c] = "recv" /\ chan[c] = "open" /\ nmsg < MaxMsgs
    /\ nmsg' = nmsg + 1
    /\ Apply(c, endpoint_dispatch(St(c), c, m))
    /\ wire' = NoWire /\ got' = [by |-> c, msg |-> m]

\* main.py:270, 310, 350  what arrives is no JSON object: receive_json or .get raises
RecvBad(c) ==
    /\ pc[c] \in {"init_recv", "recv"} /\ chan[c] = "open"
    /\ Apply(c, endpoint_finally(St(c), c))
    /\ wire' = NoWire /\ got' = NoGot
    /\ UNCHANGED nmsg

\* main.py:270, 310, 348  the channel is closed: receive_json raises WebSocketDisconnect
RecvFail(c) ==
    /\ pc[c] \in {"init_recv", "recv"} /\ chan[c] = "closed"
    /\ Apply(c, endpoint_finally(St(c), c))
    /\ wire' = NoWire /\ got' = NoGot
    /\ UNCHANGED nmsg

\* main.py:79, 91, 286  the send_json that c awaits ends: the message is
\* delivered on an open channel, the send raises on a closed one.  wire is
\* the delivery of this step, with the disconnected_users (main.py:72) of
\* the call that made it.
SendDone(c) ==
    /\ pc[c] = "send" /\ chan[frame[c].to] # "stalled"
    /\ LET ok == chan[frame[c].to] = "open"
       IN  /\ wire' = IF ok THEN [to |-> frame[c].to, by |-> c, msg |-> frame[c].msg,
                                 failed |-> frame[c].failed]
                      ELSE NoWire
           /\ Apply(c, endpoint_sent(St(c), c, frame[c], ok))
    /\ got' = NoGot
    /\ UNCHANGED nmsg

\* The client of c closes its websocket, or its network drops.
Close(c) ==
    /\ chan[c] = "open" /\ pc[c] \notin {"done", "failed"}
    /\ chan' = [chan EXCEPT ![c] = "closed"]
    /\ wire' = NoWire /\ got' = NoGot
    /\ UNCHANGED <<rooms, users, path, pc, frame, user_info, nmsg>>

Next ==
    \E c \in Conns :
        \/ \E t \in InitMsgs : RecvInit(c, t)
        \/ \E m \in InMsgs : Recv(c, m)
        \/ RecvBad(c)
        \/ RecvFail(c)
        \/ SendDone(c)
        \/ Close(c)

Spec == Init /\ [][Next]_vars

\* Three users in one room, who signal by speaking messages only.
NextRoom ==
    \E c \in Conns :
        \/ \E t \in InitMsgs : RecvInit(c, t)
        \/ \E m \in RoomMsgs : Recv(c, m)
        \/ RecvBad(c)
        \/ RecvFail(c)
        \/ SendDone(c)
        \/ Close(c)

RoomSpec == InitRoom /\ [][NextRoom]_vars

\* The client of c stops reading while its connection stays up: from now on
\* a send_json to c neither completes nor raises.
Stall(c) ==
    /\ chan[c] = "open" /\ pc[c] \notin {"done", "failed"}
    /\ chan' = [chan EXCEPT ![c] = "stalled"]
    /\ wire' = NoWire /\ got' = NoGot
    /\ UNCHANGED <<rooms, users, path, pc, frame, user_info, nmsg>>

\* Three users who join one room and may stall or close.  The event loop
\* resumes a coroutine whose awaited send_json or receive_json can end.
NextLive ==
    \E c \in Conns :
        \/ RecvInit(c, "join")
        \/ RecvFail(c)
        \/ SendDone(c)
        \/ Close(c)
        \/ Stall(c)

LiveSpec ==
    /\ InitRoom /\ [][NextLive]_vars
    /\ \A c \in Conns : WF_vars(SendDone(c)) /\ WF_vars(RecvFail(c))

\* Three users have joined one room, A then B then C, each join completed
\* before the next; the last delivery was user_joined C to B.  From there
\* clients close and the handlers run their cleanup.
InitLeave ==
    /\ path \in RoomPaths
    /\ rooms = [r \in {"r1"} |-> [i \in 1..3 |-> [k |-> UserOf(i), ws |-> i]]]
    /\ users = [u \in UserIds |->
                  [info |-> InfoOf(CHOOSE c \in Conns : UserOf(c) = u), room_id |-> "r1"]]
    /\ pc = [c \in Conns |-> "recv"]
    /\ chan = [c \in Conns |-> "open"]
    /\ frame = [c \in Conns |-> NoFrame]
    /\ user_info = [c \in Conns |-> InfoOf(c)]
    /\ wire = [to |-> 2, by |-> 3, msg |-> Msg("user_joined", "C", InfoOf(3), <<>>),
               failed |-> <<>>]
    /\ got = NoGot
    /\ nmsg = 0

NextLeave ==
    \E c \in Conns :
        \/ RecvFail(c)
        \/ SendDone(c)
        \/ Close(c)

LeaveSpec ==
    /\ InitLeave /\ [][NextLeave]_vars
    /\ \A c \in Conns : WF_vars(SendDone(c)) /\ WF_vars(RecvFail(c))

\* Signaling messages that one connection sends in a row.
MaxSeq == 2

\* The connection whose messages are numbered, and what it may send: each
\* message reaches B, alone or with the rest of the room.
Source == 1
OrderMsgs ==
    [type : {"offer", "ice_candidate"}, target : {"B"}, payload : {None}]
        \cup [type : {"speaking"}, target : {None}, payload : {None}]

\* main.py:310  the next message of c arrives; its payload is its number in
\* the order received.
RecvNext(c, m) ==
    /\ pc[c] = "recv" /\ chan[c] = "open" /\ nmsg < MaxSeq
    /\ nmsg' = nmsg + 1
    /\ \E n \in {[m EXCEPT !.payload = ToString(nmsg + 1)]} :
          /\ Apply(c, endpoint_dispatch(St(c), c, n))
          /\ got' = [by |-> c, msg |-> n]
    /\ wire' = NoWire

\* Three users in one room; A sends numbered messages while the others
\* leave at any time.
NextOrder ==
    \/ \E m \in OrderMsgs : RecvNext(Source, m)
    \/ \E c \in Conns :
          \/ RecvFail(c)
          \/ SendDone(c)
          \/ Close(c)

OrderSpec == InitLeave /\ [][NextOrder]_vars

----------------------------------------------------------------------------
(* Properties.                                                             *)

ListParticipants(r) == get_room_participants(rooms, users, r)
Listed(r) == {ListParticipants(r)[i].user_id : i \in 1..Len(ListParticipants(r))}

\* The coroutine of c is in the finally block (main.py:352-360) or has ended.
Closing(c) == pc[c] \in {"done", "failed"} \/ (pc[c] = "send" /\ frame[c].ret = "final")

\* c has joined (main.py:272-283), its client's channel is open and its
\* coroutine has not reached the finally block.
LiveJoined(c) == user_info[c] # None /\ chan[c] = "open" /\ ~Closing(c)

\* C1: a room id is a key of rooms if and only if at least one participant
\* is bound in it: no room of rooms is empty, and the room a users record
\* names is a room of rooms that binds that user.
RoomPresentIffOccupied ==
    /\ \A r \in DOMAIN rooms : dict_used(rooms[r]) >= 1
    /\ \A u \in DOMAIN users :
         users[u].room_id \in DOMAIN rooms /\ dict_has(rooms[users[u].room_id], u)

\* C1 witness: a participant that had joined has left, its room was emptied
\* and removed, and another room is still occupied.
RoomRemovedWhenEmptied ==
    \E c \in Conns :
        /\ pc[c] = "done" /\ user_info[c] # None
        /\ RoomOf(c) \notin DOMAIN rooms
        /\ DOMAIN rooms # {}

\* C2: ListParticipants(r) lists exactly the participants whose connection
\* has joined r and is live, each once: every live joined connection's user
\* is listed in its room, every listed user has a joined connection in that
\* room that has not left, and no user id is listed twice.
ListIsLiveParticipants ==
    /\ \A c \in Conns : LiveJoined(c) => UserOf(c) \in Listed(RoomOf(c))
    /\ \A r \in RoomIds : \A u \in Listed(r) :
         \E c \in Conns : path[c] = <<r, u>> /\ user_info[c] # None /\ ~Closing(c)
    /\ \A r \in RoomIds :
         \A i, j \in 1..Len(ListParticipants(r)) :
            ListParticipants(r)[i].user_id = ListParticipants(r)[j].user_id => i = j

\* C3: a participant key is bound in at most one room.
KeyInAtMostOneRoom ==
    \A u \in UserIds : Cardinality({r \in DOMAIN rooms : dict_has(rooms[r], u)}) <= 1

Range(s) == {s[i] : i \in 1..Len(s)}
NoDup(s) == \A i, j \in 1..Len(s) : s[i] = s[j] => i = j

\* The step in which the send_json awaited inside broadcast_to_room by the
\* coroutine of c ends (main.py:79-82), and what the call has then attempted.
BroadcastStep(c) == pc[c] = "send" /\ frame[c].kind = "bcast" /\ SendDone(c)
SendOk(c) == chan[frame[c].to] = "open"
SentNow(c) == IF SendOk(c) THEN Append(frame[c].sent, frame[c].key) ELSE frame[c].sent
FailedNow(c) == IF SendOk(c) THEN frame[c].failed ELSE Append(frame[c].failed, frame[c].key)

\* The call of broadcast_to_room returns in this step: the endpoint goes on
\* to the receive loop (main.py:310) or, from the finally block, ends.
BroadcastReturns(c) == IF frame[c].ret = "final" THEN pc'[c] = "done" ELSE pc'[c] = "recv"

\* The call is not over: it awaits the send to its next recipient.
BroadcastGoesOn(c) ==
    pc'[c] = "send" /\ frame'[c].kind = "bcast" /\ frame'[c].ret = frame[c].ret

\* C4: Broadcast(room, m, exclude=p) delivers m to a recipient whose send
\* succeeds, at most once to each, and never to p (nor, for user_left, to
\* the participant that left); when the call returns it has attempted every
\* participant bound to the room other than p exactly once, every recipient
\* whose send failed is unbound, has no users record and is not listed, and
\* the room is removed if that emptied it.
BroadcastDelivers ==
    [][\A c \in Conns : BroadcastStep(c) =>
         /\ UserOf(frame[c].to) = frame[c].key
         /\ SendOk(c) => wire' = [to |-> frame[c].to, by |-> c, msg |-> frame[c].msg,
                                  failed |-> frame[c].failed]
         /\ ~SendOk(c) => wire' = NoWire
         /\ NoDup(SentNow(c) \o FailedNow(c))
         /\ frame[c].excl \notin Range(SentNow(c))
         /\ UserOf(c) \notin Range(SentNow(c))
         /\ BroadcastReturns(c) =>
              /\ Range(SentNow(c)) \cup Range(FailedNow(c))
                    = Bound(rooms, RoomOf(c)) \ {frame[c].excl}
              /\ \A u \in Range(FailedNow(c)) :
                    /\ u \notin Bound(rooms', RoomOf(c))
                    /\ u \notin DOMAIN users'
                    /\ u \notin (Listed(RoomOf(c)))'
              /\ Bound(rooms', RoomOf(c)) = {} <=> RoomOf(c) \notin DOMAIN rooms'
      ]_vars

\* C4 witness: the speaking broadcast of a connection has just returned;
\* its send to one recipient failed, its send to a later one succeeded, and
\* the failed recipient, whose own handler has not yet run, is removed.
BroadcastReturnedAfterFailure ==
    \E c, x, y \in Conns :
        /\ pc[c] = "recv" /\ wire.by = c /\ wire.to = x /\ wire.msg.type = "speaking"
        /\ LiveJoined(c) /\ LiveJoined(x)
        /\ wire.failed = <<UserOf(y)>> /\ pc[y] = "recv" /\ chan[y] = "closed"
        /\ UserOf(y) \notin Bound(rooms, RoomOf(c))
        /\ UserOf(x) \in Bound(rooms, RoomOf(c))

\* C5: while the coroutine of c awaits a send inside broadcast_to_room, what
\* other connections do never makes the call fail: when the send ends, the
\* call goes on to its next recipient or returns, and the handler of c
\* stays Active (or, in its own finally block, ends normally).
BroadcastNeverAborts ==
    [][\A c \in Conns : BroadcastStep(c) => BroadcastGoesOn(c) \/ BroadcastReturns(c)]_vars

\* The broadcast of c awaits a send to a recipient whose client has stalled,
\* and t is a live participant the iteration has not reached yet.
BehindStalled(c, t) ==
    /\ pc[c] = "send" /\ frame[c].kind = "bcast" /\ chan[frame[c].to] = "stalled"
    /\ t # c /\ chan[t] = "open" /\ UserOf(t) # frame[c].excl
    /\ ~frame[c].stale /\ RoomOf(c) \in DOMAIN rooms
    /\ \E i \in (frame[c].pos + 1)..Len(rooms[RoomOf(c)]) :
          rooms[RoomOf(c)][i] = [k |-> UserOf(t), ws |-> t]

\* C6: a recipient whose send stalls forever does not block the delivery to
\* the others: a live participant that a broadcast has not reached yet
\* while the broadcast awaits a stalled recipient is eventually sent the
\* message of that broadcast, unless its own channel stops being live.
StalledRecipientDoesNotBlock ==
    \A c, t \in Conns :
        BehindStalled(c, t)
            ~> (\/ /\ wire.by = c /\ wire.to = t
                   /\ wire.msg.type \in {"user_joined", "user_left"}
                \/ chan[t] # "open")

\* C7: a connection that has not joined (its first message was not a join,
\* or its channel closed before a first message) goes directly to Closed:
\* it is never in the receive loop, never awaits a send made on its behalf
\* (a relay, or the broadcast of user_left for its key), and its handler
\* never fails.
UnjoinedGoesDirectlyToClosed ==
    \A c \in Conns : user_info[c] = None => pc[c] \in {"init_recv", "done"}

\* The participants that the room_state message of the joining connection
\* c lists, once c has joined and awaits the send of that message.
RoomStateList(c) ==
    {frame[c].msg.plist[i].user_id : i \in 1..Len(frame[c].msg.plist)}

\* C8: on a join by u to r the handler adds u to r and sends the joiner a
\* room_state whose participants list, taken in the same step as the add,
\* has u itself and every participant bound to r at that moment.
RoomStateListsEveryBound ==
    [][\A c \in Conns : RecvInit(c, "join") =>
          /\ UserOf(c) \in Bound(rooms', RoomOf(c))
          /\ (pc[c] = "send" /\ frame[c].kind = "room_state" /\ frame[c].to = c)'
          /\ (RoomStateList(c))' = Bound(rooms', RoomOf(c))
      ]_vars

\* A relayed message (offer, answer, ice_candidate) whose target key is not
\* bound in the room of the sending connection.
Unbound(c, m) == m.type \in RelayTypes /\ m.target \notin Bound(rooms, RoomOf(c))

\* C10: send_to_user to a target key that is not bound in the sender's room
\* (absent room, unknown key, or a key bound only in another room) changes
\* neither rooms nor users, delivers nothing, starts no send, and leaves
\* the sending handler in its receive loop with every channel as it was.
UnicastToAbsentHasNoEffect ==
    [][\A c \in Conns : \A m \in {got'.msg} : got'.by = c /\ Unbound(c, m) /\ Recv(c, m) =>
          /\ rooms' = rooms /\ users' = users
          /\ wire' = NoWire
          /\ pc' = pc /\ pc'[c] = "recv"
          /\ frame' = frame /\ chan' = chan /\ user_info' = user_info
      ]_vars

\* C10 witness: a joined connection has just handled a message for a target
\* key that is bound in another room only, and awaits its next message.
UnicastToOtherRoomDropped ==
    \E c \in Conns :
        /\ got.by = c /\ got.msg.type \in RelayTypes
        /\ LiveJoined(c) /\ pc[c] = "recv"
        /\ got.msg.target \notin Bound(rooms, RoomOf(c))
        /\ \E r \in DOMAIN rooms : r # RoomOf(c) /\ got.msg.target \in Bound(rooms, r)

----------------------------------------------------------------------------
(* The end-to-end scenario: A (connection 1) and B (connection 2) use room *)
(* r1, connection 3 stays idle on another room.                            *)

Ids(l) == [i \in 1..Len(l) |-> l[i].user_id]

OfferAB == [type |-> "offer", target |-> "B", payload |-> "X"]

\* Where the scenario stands: the positions and channels of the handlers of
\* A and B, the list of r1, and the number of signaling messages handled.
At(pcA, pcB, chA, chB, ids, n) ==
    /\ path[1] = <<"r1", "A">> /\ path[2] = <<"r1", "B">> /\ RoomOf(3) = "r2"
    /\ pc[3] = "init_recv" /\ chan[3] = "open"
    /\ pc[1] = pcA /\ pc[2] = pcB /\ chan[1] = chA /\ chan[2] = chB
    /\ Ids(ListParticipants("r1")) = ids /\ nmsg = n
    /\ DOMAIN rooms = (IF ids = <<>> THEN {} ELSE {"r1"})

Sending(c, kind, type) == frame[c].kind = kind /\ frame[c].msg.type = type

Delivered(by, to, msg) == wire.by = by /\ wire.to = to /\ wire.msg = msg

\* The scenario, step by step; first is the participants list of the
\* room_state that A receives on joining the empty room.
ScenarioStep(first) ==
    /\ At("init_recv", "init_recv", "open", "open", <<>>, 0) /\ RecvInit(1, "join")
         => /\ (At("send", "init_recv", "open", "open", <<"A">>, 0))'
            /\ (Sending(1, "room_state", "room_state") /\ Ids(frame[1].msg.plist) = first)'
    /\ At("send", "init_recv", "open", "open", <<"A">>, 0)
         /\ Sending(1, "room_state", "room_state") /\ SendDone(1)
         => /\ (At("recv", "init_recv", "open", "open", <<"A">>, 0))'
            /\ (wire.by = 1 /\ wire.to = 1 /\ wire.msg.type = "room_state")'
            /\ (Ids(wire.msg.plist))' = first
    /\ At("recv", "init_recv", "open", "open", <<"A">>, 0) /\ RecvInit(2, "join")
         => /\ (At("recv", "send", "open", "open", <<"A", "B">>, 0))'
            /\ (Sending(2, "room_state", "room_state"))'
    /\ At("recv", "send", "open", "open", <<"A", "B">>, 0)
         /\ Sending(2, "room_state", "room_state") /\ SendDone(2)
         => /\ (At("recv", "send", "open", "open", <<"A", "B">>, 0))'
            /\ (wire.by = 2 /\ wire.to = 2 /\ wire.msg.type = "room_state")'
            /\ (Ids(wire.msg.plist))' = <<"A", "B">>
            /\ (Sending(2, "bcast", "user_joined"))'
    /\ At("recv", "send", "open", "open", <<"A", "B">>, 0)
         /\ Sending(2, "bcast", "user_joined") /\ SendDone(2)
         => /\ (At("recv", "recv", "open", "open", <<"A", "B">>, 0))'
            /\ (Delivered(2, 1, Msg("user_joined", "B", InfoOf(2), <<>>)))'
    /\ At("recv", "recv", "open", "open", <<"A", "B">>, 0) /\ Recv(1, OfferAB)
         => /\ (At("send", "recv", "open", "open", <<"A", "B">>, 1))'
            /\ (Sending(1, "unicast", "offer"))'
    /\ At("send", "recv", "open", "open", <<"A", "B">>, 1)
         /\ got = [by |-> 1, msg |-> OfferAB] /\ SendDone(1)
         => /\ (At("recv", "recv", "open", "open", <<"A", "B">>, 1))'
            /\ (Delivered(1, 2, Msg("offer", "A", "X", <<>>)))'
    /\ At("recv", "recv", "open", "open", <<"A", "B">>, 1) /\ Close(1)
         => (At("recv", "recv", "closed", "open", <<"A", "B">>, 1))'
    /\ At("recv", "recv", "closed", "open", <<"A", "B">>, 1) /\ RecvFail(1)
         => /\ (At("send", "recv", "closed", "open", <<"B">>, 1))'
            /\ (Sending(1, "bcast", "user_left"))'
    /\ At("send", "recv", "closed", "open", <<"B">>, 1)
         /\ Sending(1, "bcast", "user_left") /\ SendDone(1)
         => /\ (At("done", "recv", "closed", "open", <<"B">>, 1))'
            /\ (Delivered(1, 2, Msg("user_left", "A", None, <<>>)))'
            /\ Bound(rooms', "r1") = {"B"}
    /\ At("done", "recv", "closed", "open", <<"B">>, 1) /\ Close(2)
         => (At("done", "recv", "closed", "closed", <<"B">>, 1))'
    /\ At("done", "recv", "closed", "closed", <<"B">>, 1) /\ RecvFail(2)
         => /\ (At("done", "done", "closed", "closed", <<>>, 1))'
            /\ "r1" \notin DOMAIN rooms' /\ users' = <<>>

\* C9: the end-to-end scenario, with the room_state that A receives on
\* joining the empty r1 listing A itself: B's join then gives A
\* user_joined B and B a room_state listing A and B; A's offer for B
\* reaches B as exactly {type: offer, from_user_id: A, offer: X}; when A
\* disconnects B receives user_left A and r1 lists exactly B; when B
\* disconnects r1 is absent from rooms.
ScenarioWithSelfListed == [][ScenarioStep(<<"A">>)]_vars

\* C9 as stated: the same scenario with A's room_state listing nobody.
ScenarioAsStated == [][ScenarioStep(<<>>)]_vars

\* C9 witness: late in the scenario: A and B had joined r1, a signaling
\* message was handled, A has disconnected, B has just received
\* user_left A from A's handler, and r1 lists exactly B.
ScenarioReachesUserLeft ==
    /\ At("done", "recv", "closed", "open", <<"B">>, 1)
    /\ user_info[1] # None /\ user_info[2] # None
    /\ Delivered(1, 2, Msg("user_left", "A", None, <<>>))

----------------------------------------------------------------------------
(* Relaying.                                                               *)

\* The send that send_to_user starts for the message m read by c: to the
\* websocket bound to the target key in the room of c, of the envelope
\* {type, from_user_id: user_id of c, payload of m}.
RelayOf(c, m) ==
    [NoFrame EXCEPT !.kind = "unicast", !.key = m.target,
                    !.to = dict_get(rooms[RoomOf(c)], m.target),
                    !.msg = Msg(m.type, UserOf(c), m.payload, <<>>)]

\* C11: an offer, answer or ice_candidate that c receives with a payload and
\* a target bound in the room of c starts exactly one send, to the target's
\* websocket, of the envelope {type, from_user_id, payload} with the type
\* and payload received; when that send ends on a live channel exactly that
\* envelope is delivered to that websocket, the handler goes back to its
\* receive loop, and neither step changes rooms or users or any other
\* handler.
RelayReachesTargetOnly ==
    [][\A c \in Conns :
         /\ \A m \in {got'.msg} :
               /\ got'.by = c /\ m.type \in RelayTypes /\ m.payload # None
               /\ m.target \in Bound(rooms, RoomOf(c)) /\ Recv(c, m)
               => /\ rooms' = rooms /\ users' = users /\ wire' = NoWire
                  /\ pc' = [pc EXCEPT ![c] = "send"]
                  /\ frame' = [frame EXCEPT ![c] = RelayOf(c, m)]
         /\ pc[c] = "send" /\ frame[c].kind = "unicast" /\ SendOk(c) /\ SendDone(c)
               => /\ wire' = [to |-> frame[c].to, by |-> c, msg |-> frame[c].msg,
                              failed |-> <<>>]
                  /\ rooms' = rooms /\ users' = users
                  /\ pc' = [pc EXCEPT ![c] = "recv"]
                  /\ frame' = [frame EXCEPT ![c] = NoFrame]
      ]_vars

\* C11 witness: a joined connection has just had its ice_candidate for
\* another joined, live participant of its room delivered to that
\* participant's connection, and awaits its next message.
RelayDeliveredToTarget ==
    \E c, x \in Conns :
        /\ x # c /\ LiveJoined(c) /\ LiveJoined(x) /\ pc[c] = "recv"
        /\ RoomOf(x) = RoomOf(c) /\ UserOf(x) # UserOf(c)
        /\ UserOf(x) \in Bound(rooms, RoomOf(c))
        /\ dict_get(rooms[RoomOf(c)], UserOf(x)) = x
        /\ wire = [to |-> x, by |-> c,
                   msg |-> Msg("ice_candidate", UserOf(c), "X", <<>>), failed |-> <<>>]

----------------------------------------------------------------------------
(* The cleanup of a connection that ends.                                  *)

\* The channel of the joined connection c has closed and its handler, still
\* in the receive loop, has yet to run its cleanup; t is another joined,
\* live connection bound in the same room.
LeavingBeside(c, t) ==
    /\ user_info[c] # None /\ pc[c] = "recv" /\ chan[c] = "closed"
    /\ t # c /\ LiveJoined(t) /\ RoomOf(t) = RoomOf(c)
    /\ UserOf(c) \in Bound(rooms, RoomOf(c))
    /\ UserOf(t) \in Bound(rooms, RoomOf(c))

\* C12: after a joined participant disconnects, every participant still
\* bound to its room eventually receives user_left for it: a joined, live
\* connection bound in the room when the leaver's channel has closed is
\* eventually sent user_left by the leaver's handler, unless its own
\* channel stops being live.
UserLeftReachesEveryone ==
    \A c, t \in Conns :
        LeavingBeside(c, t)
            ~> (\/ Delivered(c, t, Msg("user_left", UserOf(c), None, <<>>))
                \/ chan[t] # "open")

----------------------------------------------------------------------------
(* Concurrent joins.                                                       *)

\* The connections that have joined room r, are live and have not begun to
\* leave.
LiveJoinedIn(r) == {c \in Conns : LiveJoined(c) /\ RoomOf(c) = r}

\* C13: joins of distinct participant keys to one room lose no addition,
\* however the handlers interleave: every connection that has registered
\* and has neither disconnected nor been removed is bound in the room's map
\* to its own websocket and is listed by ListParticipants, once.
NoJoinLost ==
    \A r \in RoomIds :
        /\ \A c \in LiveJoinedIn(r) :
              /\ UserOf(c) \in Bound(rooms, r)
              /\ dict_get(rooms[r], UserOf(c)) = c
              /\ Cardinality({i \in 1..Len(ListParticipants(r)) :
                                 ListParticipants(r)[i].user_id = UserOf(c)}) = 1
        /\ Cardinality(LiveJoinedIn(r)) <= Cardinality(Bound(rooms, r))

\* C13 witness: three connections have joined one room with distinct keys,
\* each registering before any other had been sent its room_state, and all
\* three are bound.
ThreeJoinedConcurrently ==
    \E r \in RoomIds :
        /\ LiveJoinedIn(r) = Conns
        /\ \A c \in Conns : pc[c] = "send" /\ frame[c].kind = "room_state"
        /\ Bound(rooms, r) = {UserOf(c) : c \in Conns}
        /\ Cardinality(Bound(rooms, r)) = 3

----------------------------------------------------------------------------
(* Order of relays.                                                        *)

\* C14: the messages of one connection are relayed in the order received:
\* when the handler reads its next message no relay of an earlier one is
\* still in flight, and every relay it delivers carries the number of the
\* message read last, so each relay of the first message is delivered
\* before the second message is read and hence before any relay of it.
RelayedInOrderReceived ==
    [][/\ \A m \in {got'.msg} :
             got'.by = Source /\ m.type # "none" /\ nmsg' = nmsg + 1
                => frame[Source] = NoFrame /\ m.payload = ToString(nmsg')
       /\ wire'.by = Source /\ wire'.msg.type \in RelayTypes \cup {"speaking"}
             => wire'.msg.data = ToString(nmsg') /\ wire'.msg.uid = UserOf(Source)
      ]_vars

\* C14 witness: no channel has closed, so B was sent a relay of the first
\* message, and B has just been delivered the relay of the second.
SecondRelayDelivered ==
    /\ nmsg = 2 /\ \A c \in Conns : chan[c] = "open" /\ LiveJoined(c)
    /\ wire.by = Source /\ wire.to = 2 /\ wire.msg.data = "2"
    /\ wire.msg.type \in RelayTypes \cup {"speaking"}

----------------------------------------------------------------------------
(* What disconnect does to the connection it removes.                      *)

\* The connection that key u of room r is bound to.
BoundTo(r, u) == dict_get(rooms[r], u)

\* C15: a participant that a call removes from its room has its channel
\* closed in that call: after a step that removes the binding of a key, the
\* connection the key was bound to is not a joined connection with an open
\* channel and a handler still in its message loop.
RemovedIsClosed ==
    [][\A r \in RoomIds : \A u \in UserIds :
          u \in Bound(rooms, r) /\ u \notin Bound(rooms', r)
             => \A x \in {BoundTo(r, u)} : ~(LiveJoined(x))'
      ]_vars

\* C16: disconnect is idempotent and total, and for a participant that is
\* not bound in the room it is given it changes no room, no binding and no
\* room's list of participants.
DisconnectAbsentChangesNothing ==
    \A r \in RoomIds : \A u \in UserIds :
        \A d \in {disconnect(St(1), r, u)} :
            /\ disconnect(d, r, u) = d
            /\ u \notin Bound(rooms, r)
                 => /\ d.rooms = rooms
                    /\ \A q \in RoomIds :
                         get_room_participants(d.rooms, d.users, q) = ListParticipants(q)

----------------------------------------------------------------------------
(* Messages that are not well formed.                                      *)

\* A message of an unrecognized type, or an offer, answer, ice_candidate or
\* speaking message without its target_user_id or its payload.
Malformed(m) ==
    \/ m.type \notin RelayTypes \cup {"speaking"}
    \/ m.type \in RelayTypes /\ (m.target = None \/ m.payload = None)
    \/ m.type = "speaking" /\ m.payload = None

\* C17: a malformed message is silently ignored: the handler that reads it
\* sends nothing, starts no send, changes neither rooms nor users and stays
\* in its receive loop on its channel.
MalformedIsIgnored ==
    [][\A c \in Conns : \A m \in {got'.msg} : got'.by = c /\ Malformed(m) /\ Recv(c, m) =>
          /\ rooms' = rooms /\ users' = users
          /\ wire' = NoWire
          /\ pc' = pc /\ pc'[c] = "recv"
          /\ frame' = frame /\ chan' = chan
      ]_vars

----------------------------------------------------------------------------
(* Whose registration a cleanup removes, and for whom the handler relays.  *)

\* The handler of x reaches its finally block from a receive_json.
CleanupOf(x) == RecvFail(x) \/ RecvBad(x)

\* C18: the cleanup of a connection removes only its own registration: when
\* a joined connection x ends while a later connection c, joined with the
\* same room and key, is live and holds the binding, c stays bound and
\* listed and no user_left for its key is sent or started.
CleanupRemovesOwnOnly ==
    [][\A x, c \in Conns :
          /\ x # c /\ path[x] = path[c] /\ user_info[x] # None
          /\ LiveJoined(c)
          /\ UserOf(c) \in Bound(rooms, RoomOf(c)) /\ BoundTo(RoomOf(c), UserOf(c)) = c
          /\ CleanupOf(x)
          => /\ UserOf(c) \in Bound(rooms', RoomOf(c))
             /\ (UserOf(c) \in Listed(RoomOf(c)))'
             /\ ~(pc'[x] = "send" /\ frame'[x].msg = Msg("user_left", UserOf(c), None, <<>>))
      ]_vars

\* C19: the handler relays on behalf of a connection only while that
\* connection is registered: a message read from c starts a send only if c
\* has joined and its key is bound to c in its room.
RelaysOnlyForRegistered ==
    [][\A c \in Conns : \A m \in {got'.msg} :
          got'.by = c /\ Recv(c, m) /\ pc'[c] = "send"
             => /\ user_info[c] # None
                /\ UserOf(c) \in Bound(rooms, RoomOf(c))
                /\ BoundTo(RoomOf(c), UserOf(c)) = c
      ]_vars

\* C20: rooms and users agree: a key has a users record if and only if it
\* is bound in some room, the room_id of the record is a room that binds
\* the key, and there are as many records as bindings.
RoomsAndUsersAgree ==
    /\ \A u \in UserIds : u \in DOMAIN users <=> \E r \in RoomIds : u \in Bound(rooms, r)
    /\ \A u \in DOMAIN users : u \in Bound(rooms, users[u].room_id)
    /\ Cardinality(DOMAIN users)
         = Cardinality({b \in RoomIds \X UserIds : b[2] \in Bound(rooms, b[1])})

====
